---------------------------- MODULE Spec2Model ----------------------------
(***************************************************************************)
(* A model of sha256.cpp: the line loop of main (readInput,                *)
(* paddingMessage, parsingMessage, getHash, printHash) with the            *)
(* process-wide schedule array W and working variables a..h, T1, T2.       *)
(*                                                                         *)
(* An unsigned int of the program is a 32-bit word.  TLC's integers are    *)
(* 32-bit signed, so a word is kept as the pair <<hi, lo>> of its two      *)
(* 16-bit halves (value = hi * 2^16 + lo); every operation below is the    *)
(* program's operation on the 32-bit value, carried out on the halves.     *)
(* A vector is a sequence; At(v, k) is v[k] of the program (0-based).      *)
(***************************************************************************)
EXTENDS Integers, Sequences, FiniteSets, TLC

\* ------------------------------------------------------------------------
\* 32-bit unsigned arithmetic

Half == 2 ^ 16

Word(hi, lo) == <<hi, lo>>

Zero == Word(0, 0)

IsWord(x) ==
    /\ DOMAIN x = 1..2
    /\ x[1] \in 0..(Half - 1)
    /\ x[2] \in 0..(Half - 1)

At(v, k) == v[k + 1]

\* TRUE of every value.  A loop is a recursive operator that carries what the
\* loop has built so far; naming that value in the loop's test makes TLC
\* evaluate it at each iteration instead of nesting the pending iterations.
Evaluated(v) == v = v

\* bitwise operators of the program on non-negative integers
RECURSIVE BitXor(_, _)
BitXor(x, y) ==
    IF x = 0 THEN y
    ELSE IF y = 0 THEN x
    ELSE ((x + y) % 2) + 2 * BitXor(x \div 2, y \div 2)

RECURSIVE BitAnd(_, _)
BitAnd(x, y) ==
    IF x = 0 \/ y = 0 THEN 0
    ELSE ((x % 2) * (y % 2)) + 2 * BitAnd(x \div 2, y \div 2)

RECURSIVE BitOr(_, _)
BitOr(x, y) ==
    IF x = 0 THEN y
    ELSE IF y = 0 THEN x
    ELSE (IF x % 2 = 1 \/ y % 2 = 1 THEN 1 ELSE 0) + 2 * BitOr(x \div 2, y \div 2)

\* x ^ y, x & y, x | y, ~x on unsigned int
Xor32(x, y) == Word(BitXor(x[1], y[1]), BitXor(x[2], y[2]))

And32(x, y) == Word(BitAnd(x[1], y[1]), BitAnd(x[2], y[2]))

Or32(x, y) == Word(BitOr(x[1], y[1]), BitOr(x[2], y[2]))

Not32(x) == Word(Half - 1 - x[1], Half - 1 - x[2])

\* x + y on unsigned int: the carry out of bit 31 is dropped
Add32(x, y) ==
    LET lo == x[2] + y[2]
        hi == x[1] + y[1] + (lo \div Half)
    IN  Word(hi % Half, lo % Half)

\* x >> n on unsigned int, 0 <= n < 32
Shr32(x, n) ==
    IF n >= 16
    THEN Word(0, x[1] \div (2 ^ (n - 16)))
    ELSE Word(x[1] \div (2 ^ n),
              (x[2] \div (2 ^ n)) + (x[1] % (2 ^ n)) * (2 ^ (16 - n)))

\* x << n on unsigned int, 0 <= n <= 32 (the bits shifted out are lost)
Shl32(x, n) ==
    IF n >= 32 THEN Zero
    ELSE IF n >= 16
    THEN Word((x[2] % (2 ^ (32 - n))) * (2 ^ (n - 16)), 0)
    ELSE Word((x[1] % (2 ^ (16 - n))) * (2 ^ n) + (x[2] \div (2 ^ (16 - n))),
              (x[2] % (2 ^ (16 - n))) * (2 ^ n))

\* ------------------------------------------------------------------------
\* Constants of the hash algorithm

K ==
 <<
    Word(\h428a, \h2f98), Word(\h7137, \h4491), Word(\hb5c0, \hfbcf), Word(\he9b5, \hdba5),
    Word(\h3956, \hc25b), Word(\h59f1, \h11f1), Word(\h923f, \h82a4), Word(\hab1c, \h5ed5),
    Word(\hd807, \haa98), Word(\h1283, \h5b01), Word(\h2431, \h85be), Word(\h550c, \h7dc3),
    Word(\h72be, \h5d74), Word(\h80de, \hb1fe), Word(\h9bdc, \h06a7), Word(\hc19b, \hf174),
    Word(\he49b, \h69c1), Word(\hefbe, \h4786), Word(\h0fc1, \h9dc6), Word(\h240c, \ha1cc),
    Word(\h2de9, \h2c6f), Word(\h4a74, \h84aa), Word(\h5cb0, \ha9dc), Word(\h76f9, \h88da),
    Word(\h983e, \h5152), Word(\ha831, \hc66d), Word(\hb003, \h27c8), Word(\hbf59, \h7fc7),
    Word(\hc6e0, \h0bf3), Word(\hd5a7, \h9147), Word(\h06ca, \h6351), Word(\h1429, \h2967),
    Word(\h27b7, \h0a85), Word(\h2e1b, \h2138), Word(\h4d2c, \h6dfc), Word(\h5338, \h0d13),
    Word(\h650a, \h7354), Word(\h766a, \h0abb), Word(\h81c2, \hc92e), Word(\h9272, \h2c85),
    Word(\ha2bf, \he8a1), Word(\ha81a, \h664b), Word(\hc24b, \h8b70), Word(\hc76c, \h51a3),
    Word(\hd192, \he819), Word(\hd699, \h0624), Word(\hf40e, \h3585), Word(\h106a, \ha070),
    Word(\h19a4, \hc116), Word(\h1e37, \h6c08), Word(\h2748, \h774c), Word(\h34b0, \hbcb5),
    Word(\h391c, \h0cb3), Word(\h4ed8, \haa4a), Word(\h5b9c, \hca4f), Word(\h682e, \h6ff3),
    Word(\h748f, \h82ee), Word(\h78a5, \h636f), Word(\h84c8, \h7814), Word(\h8cc7, \h0208),
    Word(\h90be, \hfffa), Word(\ha450, \h6ceb), Word(\hbef9, \ha3f7), Word(\hc671, \h78f2)
 >>

H0 ==
 << Word(\h6a09, \he667), Word(\hbb67, \hae85), Word(\h3c6e, \hf372),
    Word(\ha54f, \hf53a), Word(\h510e, \h527f), Word(\h9b05, \h688c),
    Word(\h1f83, \hd9ab), Word(\h5be0, \hcd19) >>

\* ------------------------------------------------------------------------
\* The logical functions

SHR(n, x) == Shr32(x, n)

ROTR(n, x) == Or32(Shr32(x, n), Shl32(x, 32 - n))

\* Ch with x where ~x belongs
ChNoComplement(x, y, z) == Xor32(And32(x, y), And32(x, z))

Ch(x, y, z) == Xor32(And32(x, y), And32(Not32(x), z))

Maj(x, y, z) == Xor32(Xor32(And32(x, y), And32(x, z)), And32(y, z))

capitalSigma_0(x) == Xor32(Xor32(ROTR(2, x), ROTR(13, x)), ROTR(22, x))

capitalSigma_1(x) == Xor32(Xor32(ROTR(6, x), ROTR(11, x)), ROTR(25, x))

lowercaseSigma0(x) == Xor32(Xor32(ROTR(7, x), ROTR(18, x)), SHR(3, x))

lowercaseSigma1(x) == Xor32(Xor32(ROTR(17, x), ROTR(19, x)), SHR(10, x))


\* ------------------------------------------------------------------------
\* readInput: hexadecimal text to bytes

LowerDigits == <<"0", "1", "2", "3", "4", "5", "6", "7", "8", "9",
                 "a", "b", "c", "d", "e", "f">>

UpperDigits == <<"0", "1", "2", "3", "4", "5", "6", "7", "8", "9",
                 "A", "B", "C", "D", "E", "F">>

IsHexDigit(ch) == \E v \in 0..15 : At(LowerDigits, v) = ch \/ At(UpperDigits, v) = ch

HexValue(ch) == CHOOSE v \in 0..15 : At(LowerDigits, v) = ch \/ At(UpperDigits, v) = ch

\* std::isspace, but for the vertical tab
IsSpace(ch) == ch \in {" ", "\t", "\n", "\r", "\f"}

IsSign(ch) == ch \in {"+", "-"}

\* input.substr(pos, n): at most n characters from position pos (0-based)
substr(str, pos, n) ==
    SubSeq(str, pos + 1, IF pos + n > Len(str) THEN Len(str) ELSE pos + n)

RECURSIVE SkipSpace(_)
SkipSpace(str) ==
    IF str # <<>> /\ IsSpace(Head(str)) THEN SkipSpace(Tail(str)) ELSE str

\* the value of the longest prefix of hexadecimal digits of str; -1 if it is empty
RECURSIVE DigitsValue(_, _)
DigitsValue(str, acc) ==
    IF str # <<>> /\ IsHexDigit(Head(str))
    THEN DigitsValue(Tail(str), (IF acc < 0 THEN 0 ELSE acc) * 16 + HexValue(Head(str)))
    ELSE acc

\* std::stoi(str, nullptr, 16): leading white space, an optional sign, an
\* optional 0x, then the longest run of hexadecimal digits; what follows the
\* run is ignored; std::invalid_argument is thrown if there is no digit.
stoi(str) ==
    LET s1 == SkipSpace(str)
        neg == s1 # <<>> /\ Head(s1) = "-"
        s2 == IF s1 # <<>> /\ IsSign(Head(s1)) THEN Tail(s1) ELSE s1
        s3 == IF Len(s2) >= 3 /\ s2[1] = "0" /\ s2[2] \in {"x", "X"} /\ IsHexDigit(s2[3])
              THEN Tail(Tail(s2)) ELSE s2
        v == DigitsValue(s3, -1)
    IN  IF v < 0 THEN [threw |-> TRUE, value |-> 0]
        ELSE [threw |-> FALSE, value |-> IF neg THEN 0 - v ELSE v]

\* conversion of an int to unsigned char
ToUChar(v) == ((v % 256) + 256) % 256

\* the loop of readInput from iteration i on; [threw, vector]
RECURSIVE ReadLoop(_, _, _, _, _)
ReadLoop(str, size, i, pos, inputVector) ==
    IF Evaluated(inputVector) /\ i < size \div 2
    THEN LET r == stoi(substr(str, pos, 2))
         IN  IF r.threw THEN [threw |-> TRUE, vector |-> inputVector]
             ELSE ReadLoop(str, size, i + 1, pos + 2,
                           Append(inputVector, ToUChar(r.value)))
    ELSE [threw |-> FALSE, vector |-> inputVector]

readInput(str) == ReadLoop(str, Len(str), 0, 0, <<>>)

\* ------------------------------------------------------------------------
\* printHash: a word as 8 lower-case hexadecimal digits (hex, setw(8), fill '0')

HexHalf(x) ==
    << At(LowerDigits, x \div 4096), At(LowerDigits, (x \div 256) % 16),
       At(LowerDigits, (x \div 16) % 16), At(LowerDigits, x % 16) >>

HexWord(x) == HexHalf(x[1]) \o HexHalf(x[2])

RECURSIVE PrintLoop(_, _)
PrintLoop(Hn, j) ==
    IF j < 8 THEN HexWord(At(Hn, j)) \o PrintLoop(Hn, j + 1) ELSE <<>>

printHash(H, N) == PrintLoop(At(H, N), 0)

\* ------------------------------------------------------------------------
\* Padding (section 5.1.1)

\* getPadding that leaves the 1 bit out of the count
getPaddingNoOneBit(length) == CHOOSE k \in 0..511 : (length + k) % 512 = 448

\* int k = 0; while ((length + 1 + k) % 512 != 448) ++k;  The loop stops at the
\* first k at which the test fails; the residues repeat with period 512, so
\* that k is the one value of 0..511 with (length + 1 + k) % 512 = 448.
getPadding(length) == CHOOSE k \in 0..511 : (length + 1 + k) % 512 = 448

\* k / 8 on int (truncation towards zero)
IntDiv(x, y) == IF x >= 0 THEN x \div y ELSE 0 - ((0 - x) \div y)

\* l >> s on a non-negative long long below 2^31
ShiftRight(l, s) == IF s >= 31 THEN 0 ELSE l \div (2 ^ s)

RECURSIVE ZeroLoop(_, _, _)
ZeroLoop(M, i, n) ==
    IF Evaluated(M) /\ i < n THEN ZeroLoop(Append(M, 0), i + 1, n) ELSE M

RECURSIVE LengthLoop(_, _, _)
LengthLoop(M, l, i) ==
    IF Evaluated(M) /\ i < 9
    THEN LengthLoop(Append(M, ShiftRight(l, 64 - i * 8) % 256), l, i + 1)
    ELSE M

\* paddingMessage that appends the length in bytes
paddingMessageByteLength(M) ==
    LengthLoop(ZeroLoop(Append(M, 128), 0, IntDiv(getPadding(Len(M) * 8) - 7, 8)),
               Len(M), 1)

paddingMessage(M) ==
    LET k0 == getPadding(Len(M) * 8)
        l  == Len(M) * 8
        M1 == Append(M, 128)
        k  == k0 - 7
        M2 == ZeroLoop(M1, 0, IntDiv(k, 8))
    IN  LengthLoop(M2, l, 1)

\* ------------------------------------------------------------------------
\* Parsing into 512-bit blocks of 16 words

\* the loop over k: four bytes from index i on, shifted into word
RECURSIVE WordLoop(_, _, _, _)
WordLoop(bytes, i, k, word) ==
    IF k < 4
    THEN WordLoop(bytes, i + 1, k + 1, Or32(Shl32(word, 8), Word(0, At(bytes, i))))
    ELSE word

\* the loop over j: the 16 words of a block, read from index i on
RECURSIVE BlockLoop(_, _, _, _)
BlockLoop(bytes, i, j, block) ==
    IF Evaluated(block) /\ j < 16
    THEN BlockLoop(bytes, i + 4, j + 1, Append(block, WordLoop(bytes, i, 0, Zero)))
    ELSE block

\* the loop over n: i runs on across the blocks
RECURSIVE ParseLoop(_, _, _, _)
ParseLoop(bytes, i, n, M) ==
    IF Evaluated(M) /\ n < Len(bytes) \div 64
    THEN ParseLoop(bytes, i + 64, n + 1, Append(M, BlockLoop(bytes, i, 0, <<>>)))
    ELSE M

\* parsingMessage with the index i declared in the body of the loop over n
parsingMessageRestart(bytes) ==
    [n \in 1..(Len(bytes) \div 64) |-> BlockLoop(bytes, 0, 0, <<>>)]

parsingMessage(bytes) == ParseLoop(bytes, 0, 0, <<>>)


\* ------------------------------------------------------------------------
\* State

VARIABLES
    pc,              \* where main is
    input,           \* main: the line read (a sequence of characters)
    message,         \* main: std::vector<unsigned char> message
    parsed_message,  \* main: the blocks
    out,             \* the last line written to standard output
    W,               \* the global message schedule, [0..63 -> word]
    a, b, c, d, e, f, g, h, T1, T2,   \* the global working variables
    call,            \* the activations of getHash: thread -> its locals
    first            \* history: <<padded message, digest>> as first returned

regs == <<a, b, c, d, e, f, g, h, T1, T2>>

globals == <<W, a, b, c, d, e, f, g, h, T1, T2>>

mainvars == <<pc, input, message, parsed_message, out, first>>

vars == <<pc, input, message, parsed_message, out, W,
          a, b, c, d, e, f, g, h, T1, T2, call, first>>

Main == "main"

Registers == [a |-> a, b |-> b, c |-> c, d |-> d, e |-> e, f |-> f, g |-> g,
              h |-> h, T1 |-> T1, T2 |-> T2]

SetRegisters(r) ==
    /\ a' = r.a /\ b' = r.b /\ c' = r.c /\ d' = r.d
    /\ e' = r.e /\ f' = r.f /\ g' = r.g /\ h' = r.h
    /\ T1' = r.T1 /\ T2' = r.T2

\* the locals of getHash when it is not running
Idle == [pc |-> "idle", M |-> <<>>, Hash |-> <<>>, currentBlock |-> <<>>,
         N |-> 0, i |-> 0, t |-> 0]

\* ------------------------------------------------------------------------
\* getHash, statement by statement

\* W[t] = M[i - 1][t]
CopyAt(Wv, Mi, t) == [Wv EXCEPT ![t] = At(Mi, t)]

\* the schedule with the two sigma functions exchanged
ExpandAtExchanged(Wv, t) ==
    [Wv EXCEPT ![t] = Add32(Add32(Add32(lowercaseSigma0(Wv[t - 2]), Wv[t - 7]),
                                  lowercaseSigma1(Wv[t - 15])), Wv[t - 16])]

\* W[t] = lowercaseSigma1(W[t - 2]) + W[t - 7] + lowercaseSigma0(W[t - 15]) + W[t - 16]
ExpandAt(Wv, t) ==
    [Wv EXCEPT ![t] = Add32(Add32(Add32(lowercaseSigma1(Wv[t - 2]), Wv[t - 7]),
                                  lowercaseSigma0(Wv[t - 15])), Wv[t - 16])]

\* the load of the working variables without h = Hash[i - 1][7]
LoadFromSeven(r, Hp) ==
    [r EXCEPT !.a = At(Hp, 0), !.b = At(Hp, 1), !.c = At(Hp, 2), !.d = At(Hp, 3),
              !.e = At(Hp, 4), !.f = At(Hp, 5), !.g = At(Hp, 6)]

\* a = Hash[i - 1][0]; ... h = Hash[i - 1][7]
LoadFrom(r, Hp) ==
    [r EXCEPT !.a = At(Hp, 0), !.b = At(Hp, 1), !.c = At(Hp, 2), !.d = At(Hp, 3),
              !.e = At(Hp, 4), !.f = At(Hp, 5), !.g = At(Hp, 6), !.h = At(Hp, 7)]

\* the ten statements of the body of the round loop
\* T1 = h + capitalSigma_1(e) + Ch(e, f, g) + K[t] + W[t]
AssignT1(r, t, Wv) ==
    [r EXCEPT !.T1 = Add32(Add32(Add32(Add32(r.h, capitalSigma_1(r.e)),
                                       Ch(r.e, r.f, r.g)), At(K, t)), Wv[t])]

\* T2 = capitalSigma_0(a) + Maj(a, b, c)
AssignT2(r) == [r EXCEPT !.T2 = Add32(capitalSigma_0(r.a), Maj(r.a, r.b, r.c))]

\* h = g; g = f; f = e
AssignHGF(r) == [r EXCEPT !.h = r.g, !.g = r.f, !.f = r.e]

\* e = d + T1
AssignE(r) == [r EXCEPT !.e = Add32(r.d, r.T1)]

\* d = c; c = b; b = a
AssignDCB(r) == [r EXCEPT !.d = r.c, !.c = r.b, !.b = r.a]

\* a = T1 + T2
AssignA(r) == [r EXCEPT !.a = Add32(r.T1, r.T2)]

\* the round with d = c; c = b; b = a ahead of e = d + T1
RoundRegsReordered(r, t, Wv) ==
    AssignA(AssignE(AssignDCB(AssignHGF(AssignT2(AssignT1(r, t, Wv))))))

\* the body of the round loop, its statements one after the other
RoundRegs(r, t, Wv) ==
    AssignA(AssignDCB(AssignE(AssignHGF(AssignT2(AssignT1(r, t, Wv))))))

\* the intermediate hash value added to the initial hash value
FoldBlockInitial(r, Hp) ==
    << Add32(r.a, At(H0, 0)), Add32(r.b, At(H0, 1)), Add32(r.c, At(H0, 2)),
       Add32(r.d, At(H0, 3)), Add32(r.e, At(H0, 4)), Add32(r.f, At(H0, 5)),
       Add32(r.g, At(H0, 6)), Add32(r.h, At(H0, 7)) >>

\* currentBlock[0] = a + Hash[i - 1][0]; ... currentBlock[7] = h + Hash[i - 1][7]
FoldBlock(r, Hp) ==
    << Add32(r.a, At(Hp, 0)), Add32(r.b, At(Hp, 1)), Add32(r.c, At(Hp, 2)),
       Add32(r.d, At(Hp, 3)), Add32(r.e, At(Hp, 4)), Add32(r.f, At(Hp, 5)),
       Add32(r.g, At(Hp, 6)), Add32(r.h, At(Hp, 7)) >>

\* the test of the block loop, i <= N
LoopTest(i, N) == IF i <= N THEN "copy" ELSE "return"

\* entry of getHash(M): Hash = {H0}, currentBlock(8), N = M.size(), i = 1
Enter(p, Marg) ==
    /\ call' = [call EXCEPT ![p] =
                  [pc |-> LoopTest(1, Len(Marg)), M |-> Marg, Hash |-> <<H0>>,
                   currentBlock |-> [j \in 1..8 |-> Zero],
                   N |-> Len(Marg), i |-> 1, t |-> 0]]
    /\ UNCHANGED globals

\* one iteration of: for (t = 0; t <= 15; ++t) W[t] = M[i - 1][t]
ScheduleCopy(p) ==
    /\ call[p].pc = "copy"
    /\ W' = CopyAt(W, At(call[p].M, call[p].i - 1), call[p].t)
    /\ call' = [call EXCEPT ![p].t = call[p].t + 1,
                            ![p].pc = IF call[p].t + 1 <= 15 THEN "copy" ELSE "expand"]
    /\ UNCHANGED regs
    /\ UNCHANGED mainvars

\* one iteration of: for (t = 16; t <= 63; ++t) W[t] = ...
ScheduleExpand(p) ==
    /\ call[p].pc = "expand"
    /\ W' = ExpandAt(W, call[p].t)
    /\ call' = [call EXCEPT ![p].t = call[p].t + 1,
                            ![p].pc = IF call[p].t + 1 <= 63 THEN "expand" ELSE "load"]
    /\ UNCHANGED regs
    /\ UNCHANGED mainvars

LoadRegisters(p) ==
    /\ call[p].pc = "load"
    /\ SetRegisters(LoadFrom(Registers, At(call[p].Hash, call[p].i - 1)))
    /\ call' = [call EXCEPT ![p].t = 0, ![p].pc = "round"]
    /\ UNCHANGED W
    /\ UNCHANGED mainvars

\* one iteration of: for (t = 0; t <= 63; ++t) { T1 = ...; ...; a = T1 + T2; }
Round(p) ==
    /\ call[p].pc = "round"
    /\ SetRegisters(RoundRegs(Registers, call[p].t, W))
    /\ call' = [call EXCEPT ![p].t = call[p].t + 1,
                            ![p].pc = IF call[p].t + 1 <= 63 THEN "round" ELSE "fold"]
    /\ UNCHANGED W
    /\ UNCHANGED mainvars

\* the intermediate hash value, Hash.push_back(currentBlock), ++i and the loop test
Fold(p) ==
    /\ call[p].pc = "fold"
    /\ LET cb == FoldBlock(Registers, At(call[p].Hash, call[p].i - 1))
       IN  call' = [call EXCEPT ![p].currentBlock = cb,
                                ![p].Hash = Append(call[p].Hash, cb),
                                ![p].i = call[p].i + 1,
                                ![p].t = 0,
                                ![p].pc = LoopTest(call[p].i + 1, call[p].N)]
    /\ UNCHANGED globals
    /\ UNCHANGED mainvars


\* ------------------------------------------------------------------------
\* main: one line of standard input after the other

\* the lines standard input may hold
LineEmpty == <<>>

LineAbc == <<"6", "1", "6", "2", "6", "3">>

\* 112 hexadecimal digits: a message of 56 bytes, which pads to two blocks
Line56 == [k \in 1..112 |-> At(LowerDigits, (7 * k) % 16)]

\* an odd number of characters
LineOdd == <<"6", "1", "6", "2", "6", "3", "6">>

\* characters that are no hexadecimal digits
LineNonHex == <<"6", "g">>

LineNoDigit == <<"g", "6">>

Lines == {LineEmpty, LineAbc, Line56, LineOdd, LineNonHex, LineNoDigit}

\* std::getline returns a line; the locals of the loop body are fresh
Getline ==
    /\ pc = "getline"
    /\ \E line \in Lines : input' = line
    /\ message' = <<>>
    /\ parsed_message' = <<>>
    /\ pc' = "readInput"
    /\ UNCHANGED <<out, first, call, globals>>

\* std::getline fails at the end of the input: return 0
EndOfInput ==
    /\ pc = "getline"
    /\ pc' = "exit"
    /\ UNCHANGED <<input, message, parsed_message, out, first, call, globals>>

\* message = readInput(input); an exception of std::stoi leaves main
ReadInput ==
    /\ pc = "readInput"
    /\ LET r == readInput(input)
       IN  IF r.threw
           THEN pc' = "terminated" /\ UNCHANGED message
           ELSE pc' = "padding" /\ message' = r.vector
    /\ UNCHANGED <<input, parsed_message, out, first, call, globals>>

PaddingMessage ==
    /\ pc = "padding"
    /\ message' = paddingMessage(message)
    /\ pc' = "parsing"
    /\ UNCHANGED <<input, parsed_message, out, first, call, globals>>

ParsingMessage ==
    /\ pc = "parsing"
    /\ parsed_message' = parsingMessage(message)
    /\ pc' = "getHash"
    /\ UNCHANGED <<input, message, out, first, call, globals>>

\* the call getHash(parsed_message)
GetHash ==
    /\ pc = "getHash"
    /\ call[Main].pc = "idle"
    /\ Enter(Main, parsed_message)
    /\ UNCHANGED mainvars

\* the digest getHash has returned, Hash[N]
Returned(p) == At(call[p].Hash, call[p].N)

\* printHash(getHash(parsed_message), parsed_message.size())
PrintHash ==
    /\ pc = "getHash"
    /\ call[Main].pc = "return"
    /\ out' = printHash(call[Main].Hash, Len(parsed_message))
    /\ first' = IF \E x \in first : x[1] = message THEN first
                ELSE first \cup {<<message, Returned(Main)>>}
    /\ call' = [call EXCEPT ![Main] = Idle]
    /\ pc' = "getline"
    /\ UNCHANGED <<input, message, parsed_message, globals>>

ZeroRegisters ==
    /\ a = Zero /\ b = Zero /\ c = Zero /\ d = Zero
    /\ e = Zero /\ f = Zero /\ g = Zero /\ h = Zero
    /\ T1 = Zero /\ T2 = Zero

\* the objects of static storage are zero when main starts
InitGlobals ==
    /\ W = [t \in 0..63 |-> Zero]
    /\ ZeroRegisters

Init ==
    /\ pc = "getline"
    /\ input = <<>>
    /\ message = <<>>
    /\ parsed_message = <<>>
    /\ out = <<>>
    /\ first = {}
    /\ call = [p \in {Main} |-> Idle]
    /\ InitGlobals

Next ==
    \/ Getline
    \/ EndOfInput
    \/ ReadInput
    \/ PaddingMessage
    \/ ParsingMessage
    \/ GetHash
    \/ ScheduleCopy(Main)
    \/ ScheduleExpand(Main)
    \/ LoadRegisters(Main)
    \/ Round(Main)
    \/ Fold(Main)
    \/ PrintHash

Spec == Init /\ [][Next]_vars


\* ------------------------------------------------------------------------
\* Padding and parsing alone, on messages of every length up to MaxBytes

MaxBytes == 130

\* <<first byte, step>>: byte k of the message is first + k * step (mod 256)
Patterns == {<<0, 0>>, <<128, 0>>, <<97, 1>>, <<255, 37>>}

PatternMessage(n, pat) == [k \in 1..n |-> (pat[1] + (k - 1) * pat[2]) % 256]

InitPad ==
    /\ pc = "padding"
    /\ input = <<>>
    /\ \E n \in 0..MaxBytes : \E pat \in Patterns : message = PatternMessage(n, pat)
    /\ parsed_message = <<>>
    /\ out = <<>>
    /\ first = {}
    /\ call = [p \in {Main} |-> Idle]
    /\ InitGlobals

NextPad ==
    \/ PaddingMessage
    \/ ParsingMessage

SpecPad == InitPad /\ [][NextPad]_vars

\* ------------------------------------------------------------------------
\* Two threads of one process, each calling getHash on a message of its own.
\* The threads share W and a..h, T1, T2, the objects of static storage; a
\* thread is preempted between the four parts of the body of the block loop.

Threads == {"thread1", "thread2"}

\* what main hands to getHash for a line
ParsedOf(line) == parsingMessage(paddingMessage(readInput(line).vector))

\* the messages the threads hash
ThreadMessages == {ParsedOf(LineEmpty), ParsedOf(LineAbc)}

\* for (...; t <= 15; ++t) W[t] = M[i - 1][t], from iteration t on
RECURSIVE CopyLoop(_, _, _)
CopyLoop(Wv, Mi, t) ==
    IF Evaluated(Wv) /\ t <= 15 THEN CopyLoop(CopyAt(Wv, Mi, t), Mi, t + 1) ELSE Wv

\* for (...; t <= 63; ++t) W[t] = ..., from iteration t on
RECURSIVE ExpandLoop(_, _)
ExpandLoop(Wv, t) ==
    IF Evaluated(Wv) /\ t <= 63 THEN ExpandLoop(ExpandAt(Wv, t), t + 1) ELSE Wv

\* the round loop, from iteration t on
RECURSIVE RoundLoop(_, _, _)
RoundLoop(r, t, Wv) ==
    IF Evaluated(r) /\ t <= 63 THEN RoundLoop(RoundRegs(r, t, Wv), t + 1, Wv) ELSE r

\* for (t = 0; t <= 15; ++t) ...; for (t = 16; t <= 63; ++t) ...
ScheduleOf(Wv, Mi) == ExpandLoop(CopyLoop(Wv, Mi, 0), 16)

ThreadEnter(p) ==
    /\ call[p].pc = "call"
    /\ Enter(p, call[p].M)
    /\ UNCHANGED mainvars

\* both loops of the message schedule of block i
ThreadSchedule(p) ==
    /\ call[p].pc = "copy"
    /\ W' = ScheduleOf(W, At(call[p].M, call[p].i - 1))
    /\ call' = [call EXCEPT ![p].t = 64, ![p].pc = "load"]
    /\ UNCHANGED regs
    /\ UNCHANGED mainvars

\* the 64 rounds of block i
ThreadRounds(p) ==
    /\ call[p].pc = "round"
    /\ SetRegisters(RoundLoop(Registers, 0, W))
    /\ call' = [call EXCEPT ![p].t = 64, ![p].pc = "fold"]
    /\ UNCHANGED W
    /\ UNCHANGED mainvars

InitThreads ==
    /\ pc = "threads"
    /\ input = <<>>
    /\ message = <<>>
    /\ parsed_message = <<>>
    /\ out = <<>>
    /\ first = {}
    /\ \E msgs \in [Threads -> ThreadMessages] :
          call = [p \in Threads |-> [Idle EXCEPT !.pc = "call", !.M = msgs[p]]]
    /\ InitGlobals

NextThreads ==
    \E p \in Threads :
        \/ ThreadEnter(p)
        \/ ThreadSchedule(p)
        \/ LoadRegisters(p)
        \/ ThreadRounds(p)
        \/ Fold(p)

SpecThreads == InitThreads /\ [][NextThreads]_vars

\* getHash(M) run alone from the start of the process: the states Hash
RECURSIVE HashLoop(_, _, _, _, _)
HashLoop(M, i, Hash, Wv, r) ==
    IF Evaluated(<<Hash, Wv, r>>) /\ i <= Len(M)
    THEN HashLoop(M, i + 1,
                  Append(Hash,
                         FoldBlock(RoundLoop(LoadFrom(r, At(Hash, i - 1)), 0,
                                             ScheduleOf(Wv, At(M, i - 1))),
                                   At(Hash, i - 1))),
                  ScheduleOf(Wv, At(M, i - 1)),
                  RoundLoop(LoadFrom(r, At(Hash, i - 1)), 0,
                            ScheduleOf(Wv, At(M, i - 1))))
    ELSE Hash

ZeroRegs == [a |-> Zero, b |-> Zero, c |-> Zero, d |-> Zero, e |-> Zero,
             f |-> Zero, g |-> Zero, h |-> Zero, T1 |-> Zero, T2 |-> Zero]

getHashAlone(M) == HashLoop(M, 1, <<H0>>, [t \in 0..63 |-> Zero], ZeroRegs)


\* ------------------------------------------------------------------------
\* Properties

\* getHash has returned to main and printHash has not yet run
HashReturned == pc = "getHash" /\ call[Main].pc = "return"

DigestEmpty ==
    << Word(\he3b0, \hc442), Word(\h98fc, \h1c14), Word(\h9afb, \hf4c8), Word(\h996f, \hb924),
       Word(\h27ae, \h41e4), Word(\h649b, \h934c), Word(\ha495, \h991b), Word(\h7852, \hb855) >>

DigestAbc ==
    << Word(\hba78, \h16bf), Word(\h8f01, \hcfea), Word(\h4141, \h40de), Word(\h5dae, \h2223),
       Word(\hb003, \h61a3), Word(\h9617, \h7a9c), Word(\hb410, \hff61), Word(\hf200, \h15ad) >>

\* C1: the pipeline paddingMessage, parsingMessage, getHash yields, as Hash[N],
\* e3b0c442 ... 7852b855 for the empty byte sequence and ba7816bf ... f20015ad
\* for the three bytes 0x61 0x62 0x63.
C1_KnownAnswers ==
    HashReturned =>
        /\ readInput(input).vector = <<>> => Returned(Main) = DigestEmpty
        /\ readInput(input).vector = <<97, 98, 99>> => Returned(Main) = DigestAbc

\* the digest of "abc" is returned after the digest of the empty message was
C1_Witness ==
    /\ HashReturned
    /\ readInput(input).vector = <<97, 98, 99>>
    /\ \E x \in first : x[2] = DigestEmpty

\* C2: the padded message is the smallest multiple of 512 bits that holds the
\* L message bits, the 1 bit and the 64-bit length: one block for 0..55 bytes,
\* two blocks for 56 bytes.
C2_PaddedLength ==
    [][(pc = "padding" /\ pc' = "parsing") =>
          /\ (8 * Len(message')) % 512 = 0
          /\ 8 * Len(message') >= 8 * Len(message) + 65
          /\ 8 * Len(message') - 512 < 8 * Len(message) + 65
          /\ Len(message) <= 55 => Len(message') = 64
          /\ Len(message) = 56 => Len(message') = 128]_vars

\* a message of 56 bytes (448 = 1 * 256 + 192 bits) has been padded to two blocks
C2_Witness ==
    /\ pc = "parsing"
    /\ Len(message) = 128
    /\ At(message, 126) = 1
    /\ At(message, 127) = 192

\* byte j (1 is the most significant) of v < 2^31 written as 64 bits
BigEndian64(v, j) == IF j <= 4 THEN 0 ELSE (v \div (256 ^ (8 - j))) % 256

\* C3: the padded message is the message, then 0x80, then only 0x00, then the
\* bit length as 8 bytes, most significant first.
C3_PaddedContent ==
    [][(pc = "padding" /\ pc' = "parsing") =>
          /\ Len(message') >= Len(message) + 9
          /\ SubSeq(message', 1, Len(message)) = message
          /\ At(message', Len(message)) = 128
          /\ \A k \in (Len(message) + 1)..(Len(message') - 9) : At(message', k) = 0
          /\ \A j \in 1..8 :
                At(message', Len(message') - 9 + j) = BigEndian64(8 * Len(message), j)]_vars

\* a message of 100 bytes 97, 98, ... (800 = 3 * 256 + 32 bits) has been padded
C3_Witness ==
    /\ pc = "parsing"
    /\ Len(message) = 128
    /\ At(message, 0) = 97
    /\ At(message, 99) = 196
    /\ At(message, 100) = 128
    /\ At(message, 126) = 3
    /\ At(message, 127) = 32

\* C4: parsingMessage returns length / 64 blocks of 16 words, word j of block n
\* made of the bytes 64n + 4j .. 64n + 4j + 3, most significant first.
C4_Parsed ==
    (pc = "getHash" /\ Len(message) % 64 = 0) =>
        /\ Len(parsed_message) = Len(message) \div 64
        /\ \A n \in 0..(Len(parsed_message) - 1) :
              /\ Len(At(parsed_message, n)) = 16
              /\ \A j \in 0..15 :
                    At(At(parsed_message, n), j) =
                        Word(At(message, 64 * n + 4 * j) * 256
                                + At(message, 64 * n + 4 * j + 1),
                             At(message, 64 * n + 4 * j + 2) * 256
                                + At(message, 64 * n + 4 * j + 3))

\* three blocks of bytes 255, 36, ... have been parsed
C4_Witness ==
    /\ pc = "getHash"
    /\ Len(message) = 192
    /\ Len(parsed_message) = 3
    /\ At(message, 0) = 255
    /\ At(message, 1) = 36


\* C5: in the line loop of main, the digest returned for a message is the one
\* returned for the same message earlier, whatever was hashed in between and
\* whatever W and a..h, T1, T2 held when getHash was entered; every call starts
\* from the initial hash value H0 (K and H0 are constants).
C5_Deterministic ==
    /\ HashReturned => \A x \in first : x[1] = message => x[2] = Returned(Main)
    /\ call[Main].pc # "idle" => At(call[Main].Hash, 0) = H0

\* a message is hashed again, right after a line with another digest
C5_Witness ==
    /\ HashReturned
    /\ out # <<>>
    /\ \E x \in first : x[1] = message /\ out # PrintLoop(x[2], 0)

\* C6: two calls of getHash whose steps interleave do not interfere: each
\* returns the states Hash that getHash returns for its message when run alone.
C6_Independent ==
    \A p \in DOMAIN call :
        call[p].pc = "return" => call[p].Hash = getHashAlone(call[p].M)

\* a line of an odd number of characters or with a character that is no
\* hexadecimal digit
Malformed(str) ==
    \/ Len(str) % 2 = 1
    \/ \E k \in 1..Len(str) : ~IsHexDigit(str[k])

\* C7: no byte of a malformed line reaches paddingMessage, parsingMessage or
\* getHash, and no digest is produced for it.
C7_MalformedRejected ==
    Malformed(input) => pc \notin {"padding", "parsing", "getHash"}

\* one state of the hash: 8 words
IsHashState(s) == DOMAIN s = 1..8 /\ \A j \in 1..8 : IsWord(s[j])

C8_Inv ==
    call[Main].pc # "idle" =>
        /\ Len(call[Main].Hash) = call[Main].i
        /\ call[Main].i <= call[Main].N + 1
        /\ At(call[Main].Hash, 0) = H0
        /\ \A n \in 1..Len(call[Main].Hash) : IsHashState(call[Main].Hash[n])
        /\ call[Main].pc = "return" => Len(call[Main].Hash) = call[Main].N + 1

C8_Step ==
    /\ (call[Main].pc = "load" /\ call'[Main].pc = "round") =>
          <<a', b', c', d', e', f', g', h'>> = At(call[Main].Hash, call[Main].i - 1)
    /\ (call[Main].pc = "fold" /\ call'[Main].pc # "fold") =>
          /\ call'[Main].i = call[Main].i + 1
          /\ Len(call'[Main].Hash) = Len(call[Main].Hash) + 1
          /\ \A j \in 0..7 :
                At(At(call'[Main].Hash, call[Main].i), j) =
                    Add32(At(At(call[Main].Hash, call[Main].i - 1), j),
                          At(<<a, b, c, d, e, f, g, h>>, j))
    /\ (call[Main].pc \notin {"idle", "return", "fold"}) =>
          call'[Main].Hash = call[Main].Hash /\ call'[Main].i = call[Main].i
    /\ (call[Main].pc # "idle" /\ call'[Main].pc # "idle") =>
          SubSeq(call'[Main].Hash, 1, Len(call[Main].Hash)) = call[Main].Hash

\* C8: getHash builds the states Hash[0] = H0, Hash[1], ..., Hash[N] of 8 words,
\* block after block: block i loads a..h from Hash[i - 1] and appends
\* Hash[i] = Hash[i - 1] + (a..h after the rounds) mod 2^32, leaving the
\* states before it as they are; Hash[N] is the digest.
C8_HashChain == []C8_Inv /\ [][C8_Step]_vars

\* the two blocks of a message have been folded
C8_Witness ==
    /\ HashReturned
    /\ call[Main].N = 2
    /\ Len(call[Main].Hash) = 3

\* the sum of a sequence of at most 2^15 words, mod 2^32
RECURSIVE SumHalves(_, _)
SumHalves(ws, k) == IF ws = <<>> THEN 0 ELSE Head(ws)[k] + SumHalves(Tail(ws), k)

SumWords(ws) ==
    Word((SumHalves(ws, 1) + (SumHalves(ws, 2) \div Half)) % Half,
         SumHalves(ws, 2) % Half)

\* C9: round t sets T1 = h + Sigma1(e) + Ch(e,f,g) + K[t] + W[t] and
\* T2 = Sigma0(a) + Maj(a,b,c) of the values before the round, then
\* a' = T1 + T2, b' = a, c' = b, d' = c, e' = d + T1, f' = e, g' = f, h' = g,
\* all mod 2^32 and all within 0..2^32-1; W and the hash states do not change.
C9_Round ==
    [][(call[Main].pc = "round" /\ call'[Main].t = call[Main].t + 1) =>
          /\ T1' = SumWords(<<h, capitalSigma_1(e), Ch(e, f, g),
                              At(K, call[Main].t), W[call[Main].t]>>)
          /\ T2' = SumWords(<<capitalSigma_0(a), Maj(a, b, c)>>)
          /\ a' = SumWords(<<T1', T2'>>)
          /\ b' = a /\ c' = b /\ d' = c
          /\ e' = SumWords(<<d, T1'>>)
          /\ f' = e /\ g' = f /\ h' = g
          /\ \A x \in {a', b', c', d', e', f', g', h', T1', T2'} : IsWord(x)
          /\ W' = W
          /\ call'[Main].Hash = call[Main].Hash]_vars

\* the 64 rounds of a block are done
C9_Witness ==
    /\ call[Main].pc = "fold"
    /\ call[Main].t = 64
    /\ T1 # Zero

\* the rounds of block i are about to start
RoundsStart(p) ==
    call[p].pc = "load" \/ (call[p].pc = "round" /\ call[p].t = 0)

\* C10: when the rounds of block i start, W[0..15] are the words of block i and
\* W[t] = sigma1(W[t-2]) + W[t-7] + sigma0(W[t-15]) + W[t-16] mod 2^32 for
\* t = 16..63: nothing is left of the schedule of block i - 1.
C10_FreshSchedule ==
    RoundsStart(Main) =>
        /\ \A t \in 0..15 : W[t] = At(At(call[Main].M, call[Main].i - 1), t)
        /\ \A t \in 16..63 :
              W[t] = SumWords(<<lowercaseSigma1(W[t - 2]), W[t - 7],
                                lowercaseSigma0(W[t - 15]), W[t - 16]>>)

\* the rounds of the second block of a message start
C10_Witness ==
    /\ call[Main].pc = "round"
    /\ call[Main].t = 0
    /\ call[Main].i = 2

=============================================================================
